---- MODULE Spec2Model ----
(* Model of the Webex Teams MCP server (src/webex_mcp_server.py): the      *)
(* tool catalog (list_tools), the dispatcher (call_tool) with its lazily   *)
(* initialised process-wide client handle (webex_api), and the handlers.   *)
(*                                                                         *)
(* Conventions.  A Python Optional is a sequence of length 0 (None) or 1.  *)
(* A Python dict is a function whose DOMAIN is the set of its keys.  A     *)
(* Python str is a TLA+ string.  An exception is a record [type, msg]      *)
(* where msg is str(e).  The backend (the webexteamssdk client and the     *)
(* remote service behind it) is an input of every invocation: a record     *)
(* `be` that fixes what each backend call answers and which call fails.    *)
EXTENDS Integers, Sequences, FiniteSets, TLC

VARIABLES
    environ,      \* os.environ: a dict holding at most WEBEX_ACCESS_TOKEN
    webex_api,    \* the module global: <<>> is None, <<client>> otherwise
    pc,           \* "idle": awaiting a request; "done": a call_tool just ended
    last,         \* the request and the outcome of the call_tool that just ended
    calls,        \* number of call_tool invocations so far
    inits,        \* number of runs of initialize_webex_client so far
    constructed,  \* number of WebexTeamsAPI(...) constructions so far
    listed,       \* <<>> or <<first list_tools() answer, latest answer>>
    after_failure, \* <<>>, or <<webex_api as it was when a backend call last failed>>
    selftest,     \* the run of the self-test script (test_connection.py), <<>> if none
    tasks         \* the call_tool coroutines in flight when requests are pipelined

vars == <<environ, webex_api, pc, last, calls, inits, constructed, listed,
          after_failure, selftest, tasks>>

-----------------------------------------------------------------------------
(* Bounds of the model *)

\* call_tool invocations explored in one behaviour
MaxCalls == 2
\* rooms a backend listing holds at most
MaxRooms == 2
\* |max_results| explored for search_spaces
MaxResultsArg == 2

-----------------------------------------------------------------------------
(* Python helpers *)

Min(a, b) == IF a <= b THEN a ELSE b
Max(a, b) == IF a >= b THEN a ELSE b

\* the empty dict
EmptyDict == [k \in {} |-> ""]

\* bool(d.get(k)) taken as `k in d`
Truthy_KeyPresent(d, k) == k \in DOMAIN d

\* bool(d.get(k)) for a str-valued key: present and non-empty
Truthy(d, k) == k \in DOMAIN d /\ d[k] # ""

\* lst[:n], Python slice semantics (a negative n counts from the end)
SlicePrefix(lst, n) ==
    IF n >= 0 THEN SubSeq(lst, 1, Min(n, Len(lst)))
    ELSE SubSeq(lst, 1, Max(Len(lst) + n, 0))

\* The alphabet of the model's strings is ASCII and Latin-1 (U+0000..U+00FF).
\* UpperLetters are all its characters that str.lower() changes, and
\* LowerLetters what it changes each of them to, position by position.
UpperLetters == "ABCDEFGHIJKLMNOPQRSTUVWXYZÀÁÂÃÄÅÆÇÈÉÊËÌÍÎÏÐÑÒÓÔÕÖØÙÚÛÜÝÞ"
LowerLetters == "abcdefghijklmnopqrstuvwxyzàáâãäåæçèéêëìíîïðñòóôõöøùúûüýþ"

\* c.lower() as a function over the characters that it changes
LowerTable ==
    [c \in {SubSeq(UpperLetters, i, i) : i \in 1..Len(UpperLetters)} |->
        LET i == CHOOSE j \in 1..Len(UpperLetters) : SubSeq(UpperLetters, j, j) = c
        IN  SubSeq(LowerLetters, i, i)]

\* str.lower() of a one-character string
LowerChar(c) == IF c \in DOMAIN LowerTable THEN LowerTable[c] ELSE c

\* a lower() that leaves its argument as it is
Lower_Identity(s) == s

\* str.lower()
RECURSIVE Lower(_)
Lower(s) ==
    IF Len(s) = 0 THEN ""
    ELSE LowerChar(SubSeq(s, 1, 1)) \o Lower(SubSeq(s, 2, Len(s)))

\* `sub in s` for strings
Contains(s, sub) ==
    \E i \in 1..(Len(s) - Len(sub) + 1) : SubSeq(s, i, i + Len(sub) - 1) = sub

-----------------------------------------------------------------------------
(* Exceptions and results *)

Exc(type, msg) == [type |-> type, msg |-> msg]

\* str(KeyError(k)) is repr(k)
KeyError(k) == Exc("KeyError", "'" \o k \o "'")

\* [TextContent(type="text", text=head + json.dumps(data))]: head is the text
\* up to the JSON document, data the record that is dumped
TextResult(head, data) == <<[type |-> "text", text |-> head, json |-> <<data>>]>>

\* an except clause that logs the error and returns an empty list
ErrorResult_NoBlock(error_msg) == <<>>

\* [TextContent(type="text", text=error_msg)]
ErrorResult(error_msg) == <<[type |-> "text", text |-> error_msg, json |-> <<>>]>>

\* what a handler does: the exception it raises (<<>> when it returns), the
\* result it returns, and the backend calls it made, in order
Raised(e, log) == [exc |-> <<e>>, result |-> <<>>, log |-> log]
Returned(result, log) == [exc |-> <<>>, result |-> result, log |-> log]

\* one backend call as logged by a stubbed backend
BackendCall(op, params) == [op |-> op, params |-> params]

\* the backend call made as call number n of an invocation fails
Fails(be, n) == be.fail = n

-----------------------------------------------------------------------------
(* Client initialisation *)

TokenVar == "WEBEX_ACCESS_TOKEN"

\* os.getenv(name): <<>> is None
getenv(env, name) == IF name \in DOMAIN env THEN <<env[name]>> ELSE <<>>

\* `not access_token`: None or the empty string
TokenMissing(access_token) == access_token = <<>> \/ access_token[1] = ""

ConfigErrorMsg ==
    "WEBEX_ACCESS_TOKEN environment variable is required. "
    \o "Get your token from: https://developer.webex.com/docs/getting-started"

\* initialize_webex_client(): reads the token; raises ValueError when it is
\* missing, else returns a new client (n0 clients were constructed before)
initialize_webex_client(env, n0) ==
    LET access_token == getenv(env, TokenVar)
    IN  IF TokenMissing(access_token)
        THEN [exc |-> <<Exc("ValueError", ConfigErrorMsg)>>, client |-> <<>>]
        ELSE [exc |-> <<>>,
              client |-> <<[instance |-> n0 + 1, access_token |-> access_token[1]]>>]

-----------------------------------------------------------------------------
(* The tool catalog *)

Tool(name, properties, required) ==
    [name |-> name, properties |-> properties, required |-> required]

\* the list literal list_tools returns: the descriptors, in source order
Catalog ==
    << Tool("send_message", {"room_id", "text", "markdown", "person_email"},
            {"room_id", "text"}),
       Tool("list_spaces", {"max_results", "type"}, {}),
       Tool("get_space_details", {"room_id"}, {"room_id"}),
       Tool("get_messages", {"room_id", "max_messages"}, {"room_id"}),
       Tool("create_space", {"title", "team_id"}, {"title"}),
       Tool("add_person_to_space", {"room_id", "person_email", "is_moderator"},
            {"room_id", "person_email"}),
       Tool("list_space_members", {"room_id"}, {"room_id"}),
       Tool("get_person_details", {"email", "person_id"}, {}),
       Tool("delete_message", {"message_id"}, {"message_id"}),
       Tool("search_spaces", {"search_term", "max_results"}, {"search_term"}),
       Tool("get_my_details", {}, {}) >>

\* a catalog whose second descriptor repeats the name of the first
list_tools_DuplicateName == [Catalog EXCEPT ![2].name = Catalog[1].name]

\* list_tools()
list_tools == Catalog

-----------------------------------------------------------------------------
(* Handlers.  Each takes the argument dict and the backend of the          *)
(* invocation and yields Raised(..) or Returned(..).                       *)

\* str(obj.attr) if hasattr(obj, attr) else None
OptAttr(obj, attr) == IF attr \in DOMAIN obj THEN <<obj[attr]>> ELSE <<>>

\* a stateful iterator mistaken for a list: its last element
IterNext_Last(items) == items[Len(items)]

\* iterator.__next__() on a fresh, non-empty iterator over items
IterNext(items) == items[1]

\* handle_send_message
handle_send_message(args, be) ==
    IF "room_id" \notin DOMAIN args THEN Raised(KeyError("room_id"), <<>>)
    ELSE IF "text" \notin DOMAIN args THEN Raised(KeyError("text"), <<>>)
    ELSE
    LET base == [roomId |-> args["room_id"], text |-> args["text"]]
        withMd == IF Truthy(args, "markdown")
                  THEN base @@ [markdown |-> args["markdown"]]
                  ELSE base
        lookup == Truthy(args, "person_email")
        log1 == IF lookup
                THEN <<BackendCall("people.list", [email |-> args["person_email"]])>>
                ELSE <<>>
    IN  IF lookup /\ Fails(be, 1) THEN Raised(be.err, log1)
        ELSE IF lookup /\ be.people = <<>>
        \* next() on an exhausted iterator: StopIteration, which a coroutine
        \* turns into RuntimeError
        THEN Raised(Exc("RuntimeError", "coroutine raised StopIteration"), log1)
        ELSE
        LET message_params == IF lookup
                              THEN withMd @@ [toPersonId |-> IterNext(be.people).id]
                              ELSE withMd
            log2 == Append(log1, BackendCall("messages.create", message_params))
        IN  IF Fails(be, Len(log2)) THEN Raised(be.err, log2)
            ELSE
            LET message == be.message
                result == [message_id |-> message.id,
                           room_id |-> message.roomId,
                           text |-> message.text,
                           created |-> message.created]
            IN  Returned(TextResult("Message sent successfully!\n\n", result), log2)

\* one entry of spaces_info in handle_list_spaces
SpaceListEntry(room) ==
    [id |-> room.id, title |-> room.title, type |-> room.type,
     created |-> room.created, lastActivity |-> OptAttr(room, "lastActivity")]

DefaultListMax == 50

\* handle_list_spaces
handle_list_spaces(args, be) ==
    LET max_results == IF "max_results" \in DOMAIN args
                       THEN args["max_results"] ELSE DefaultListMax
        params == IF Truthy(args, "type")
                  THEN [max |-> max_results, type |-> args["type"]]
                  ELSE [max |-> max_results]
        log == <<BackendCall("rooms.list", params)>>
    IN  IF Fails(be, 1) THEN Raised(be.err, log)
        ELSE
        LET spaces_info == [i \in 1..Len(be.rooms) |-> SpaceListEntry(be.rooms[i])]
            result == [total_spaces |-> Len(spaces_info), spaces |-> spaces_info]
        IN  Returned(TextResult("Found " \o ToString(Len(spaces_info))
                                  \o " spaces:\n\n", result), log)

\* handle_get_space_details
handle_get_space_details(args, be) ==
    IF "room_id" \notin DOMAIN args THEN Raised(KeyError("room_id"), <<>>)
    ELSE
    LET log == <<BackendCall("rooms.get", [roomId |-> args["room_id"]])>>
    IN  IF Fails(be, 1) THEN Raised(be.err, log)
        ELSE
        LET room == be.room
            details == [id |-> room.id, title |-> room.title, type |-> room.type,
                        created |-> room.created,
                        lastActivity |-> OptAttr(room, "lastActivity"),
                        creatorId |-> OptAttr(room, "creatorId")]
        IN  Returned(TextResult("Space details:\n\n", details), log)

DefaultMessagesMax == 20

\* handle_get_messages
handle_get_messages(args, be) ==
    IF "room_id" \notin DOMAIN args THEN Raised(KeyError("room_id"), <<>>)
    ELSE
    LET max_messages == IF "max_messages" \in DOMAIN args
                        THEN args["max_messages"] ELSE DefaultMessagesMax
        log == <<BackendCall("messages.list",
                             [roomId |-> args["room_id"], max |-> max_messages])>>
    IN  IF Fails(be, 1) THEN Raised(be.err, log)
        ELSE
        LET messages_info ==
                [i \in 1..Len(be.messages) |->
                    [id |-> be.messages[i].id,
                     personEmail |-> be.messages[i].personEmail,
                     text |-> be.messages[i].text,
                     created |-> be.messages[i].created]]
            result == [room_id |-> args["room_id"],
                       message_count |-> Len(messages_info),
                       messages |-> messages_info]
        IN  Returned(TextResult("Retrieved " \o ToString(Len(messages_info))
                                  \o " messages:\n\n", result), log)

\* handle_create_space
handle_create_space(args, be) ==
    IF "title" \notin DOMAIN args THEN Raised(KeyError("title"), <<>>)
    ELSE
    LET params == IF Truthy(args, "team_id")
                  THEN [title |-> args["title"], teamId |-> args["team_id"]]
                  ELSE [title |-> args["title"]]
        log == <<BackendCall("rooms.create", params)>>
    IN  IF Fails(be, 1) THEN Raised(be.err, log)
        ELSE
        LET room == be.room
            result == [id |-> room.id, title |-> room.title, type |-> room.type,
                       created |-> room.created]
        IN  Returned(TextResult("Space created successfully!\n\n", result), log)

\* handle_add_person_to_space
handle_add_person_to_space(args, be) ==
    IF "room_id" \notin DOMAIN args THEN Raised(KeyError("room_id"), <<>>)
    ELSE IF "person_email" \notin DOMAIN args
    THEN Raised(KeyError("person_email"), <<>>)
    ELSE
    LET is_moderator == IF "is_moderator" \in DOMAIN args
                        THEN args["is_moderator"] ELSE FALSE
        log == <<BackendCall("memberships.create",
                             [roomId |-> args["room_id"],
                              personEmail |-> args["person_email"],
                              isModerator |-> is_moderator])>>
    IN  IF Fails(be, 1) THEN Raised(be.err, log)
        ELSE
        LET membership == be.membership
            result == [membership_id |-> membership.id,
                       room_id |-> membership.roomId,
                       person_email |-> membership.personEmail,
                       is_moderator |-> membership.isModerator]
        IN  Returned(TextResult("Person added successfully!\n\n", result), log)

\* handle_list_space_members
handle_list_space_members(args, be) ==
    IF "room_id" \notin DOMAIN args THEN Raised(KeyError("room_id"), <<>>)
    ELSE
    LET log == <<BackendCall("memberships.list", [roomId |-> args["room_id"]])>>
    IN  IF Fails(be, 1) THEN Raised(be.err, log)
        ELSE
        LET members_info ==
                [i \in 1..Len(be.memberships) |->
                    [person_email |-> be.memberships[i].personEmail,
                     person_display_name |-> be.memberships[i].personDisplayName,
                     is_moderator |-> be.memberships[i].isModerator,
                     created |-> be.memberships[i].created]]
            result == [room_id |-> args["room_id"],
                       member_count |-> Len(members_info),
                       members |-> members_info]
        IN  Returned(TextResult("Found " \o ToString(Len(members_info))
                                  \o " members:\n\n", result), log)

\* the details record of handle_get_person_details
PersonDetails(person) ==
    [id |-> person.id, emails |-> person.emails,
     displayName |-> person.displayName,
     firstName |-> OptAttr(person, "firstName"),
     lastName |-> OptAttr(person, "lastName"),
     created |-> person.created]

ArgumentErrorMsg == "Either email or person_id must be provided"

\* handle_get_person_details
handle_get_person_details(args, be) ==
    IF Truthy(args, "email")
    THEN LET log == <<BackendCall("people.list", [email |-> args["email"]])>>
         IN  IF Fails(be, 1) THEN Raised(be.err, log)
             ELSE IF be.people = <<>>
             THEN Raised(Exc("IndexError", "list index out of range"), log)
             ELSE Returned(TextResult("Person details:\n\n",
                                      PersonDetails(be.people[1])), log)
    ELSE IF Truthy(args, "person_id")
    THEN LET log == <<BackendCall("people.get", [personId |-> args["person_id"]])>>
         IN  IF Fails(be, 1) THEN Raised(be.err, log)
             ELSE Returned(TextResult("Person details:\n\n",
                                      PersonDetails(be.person)), log)
    ELSE Raised(Exc("ValueError", ArgumentErrorMsg), <<>>)

\* handle_delete_message
handle_delete_message(args, be) ==
    IF "message_id" \notin DOMAIN args THEN Raised(KeyError("message_id"), <<>>)
    ELSE
    LET log == <<BackendCall("messages.delete", [messageId |-> args["message_id"]])>>
    IN  IF Fails(be, 1) THEN Raised(be.err, log)
        ELSE
        LET result == [status |-> "success", message_id |-> args["message_id"],
                       action |-> "deleted"]
        IN  Returned(TextResult("Message deleted successfully!\n\n", result), log)

\* [room for room in all_rooms if search_term in room.title.lower()], from
\* position i on
RECURSIVE MatchingRooms(_, _, _)
MatchingRooms(all_rooms, i, search_term) ==
    IF i > Len(all_rooms) THEN <<>>
    ELSE (IF Contains(Lower(all_rooms[i].title), search_term)
          THEN <<all_rooms[i]>> ELSE <<>>)
         \o MatchingRooms(all_rooms, i + 1, search_term)

DefaultSearchMax == 20
SearchFetchMax == 100

\* one entry of spaces_info in handle_search_spaces
SpaceSearchEntry(room) ==
    [id |-> room.id, title |-> room.title, type |-> room.type,
     created |-> room.created]

\* handle_search_spaces
handle_search_spaces(args, be) ==
    IF "search_term" \notin DOMAIN args
    THEN Raised(KeyError("search_term"), <<>>)
    ELSE
    LET search_term == Lower(args["search_term"])
        max_results == IF "max_results" \in DOMAIN args
                       THEN args["max_results"] ELSE DefaultSearchMax
        log == <<BackendCall("rooms.list", [max |-> SearchFetchMax])>>
    IN  IF Fails(be, 1) THEN Raised(be.err, log)
        ELSE
        LET matching_rooms ==
                SlicePrefix(MatchingRooms(be.rooms, 1, search_term), max_results)
            spaces_info ==
                [i \in 1..Len(matching_rooms) |-> SpaceSearchEntry(matching_rooms[i])]
            result == [search_term |-> search_term,
                       matches_found |-> Len(spaces_info),
                       spaces |-> spaces_info]
        IN  Returned(TextResult("Found " \o ToString(Len(spaces_info))
                                  \o " matching spaces:\n\n", result), log)

\* handle_get_my_details
handle_get_my_details(args, be) ==
    LET log == <<BackendCall("people.me", EmptyDict)>>
    IN  IF Fails(be, 1) THEN Raised(be.err, log)
        ELSE
        LET me == be.person
            details == [id |-> me.id, emails |-> me.emails,
                        displayName |-> me.displayName,
                        firstName |-> OptAttr(me, "firstName"),
                        lastName |-> OptAttr(me, "lastName"),
                        orgId |-> me.orgId,
                        created |-> me.created,
                        type |-> me.type]
        IN  Returned(TextResult("Bot/User details:\n\n", details), log)

-----------------------------------------------------------------------------
(* The dispatcher *)

\* the if/elif chain of call_tool, in order: <<name compared, handler awaited>>
Branches ==
    << <<"send_message", "handle_send_message">>,
       <<"list_spaces", "handle_list_spaces">>,
       <<"get_space_details", "handle_get_space_details">>,
       <<"get_messages", "handle_get_messages">>,
       <<"create_space", "handle_create_space">>,
       <<"add_person_to_space", "handle_add_person_to_space">>,
       <<"list_space_members", "handle_list_space_members">>,
       <<"get_person_details", "handle_get_person_details">>,
       <<"delete_message", "handle_delete_message">>,
       <<"search_spaces", "handle_search_spaces">>,
       <<"get_my_details", "handle_get_my_details">> >>

\* the first branch of `chain` whose comparison succeeds, or "unknown" for
\* the else branch
FirstBranch(chain, name) ==
    IF \E i \in 1..Len(chain) : chain[i][1] = name
    THEN chain[CHOOSE i \in 1..Len(chain) :
                 /\ chain[i][1] = name
                 /\ \A j \in 1..(i - 1) : chain[j][1] # name][2]
    ELSE "unknown"

\* a chain that lost its last elif
Route_LastBranchMissing(name) ==
    FirstBranch(SubSeq(Branches, 1, Len(Branches) - 1), name)

\* the handler call_tool routes `name` to
Route(name) == FirstBranch(Branches, name)

\* the body of the try block: the routed handler runs, or ValueError
TryBody(name, arguments, be) ==
    LET h == Route(name)
    IN  CASE h = "handle_send_message" -> handle_send_message(arguments, be)
          [] h = "handle_list_spaces" -> handle_list_spaces(arguments, be)
          [] h = "handle_get_space_details" -> handle_get_space_details(arguments, be)
          [] h = "handle_get_messages" -> handle_get_messages(arguments, be)
          [] h = "handle_create_space" -> handle_create_space(arguments, be)
          [] h = "handle_add_person_to_space" -> handle_add_person_to_space(arguments, be)
          [] h = "handle_list_space_members" -> handle_list_space_members(arguments, be)
          [] h = "handle_get_person_details" -> handle_get_person_details(arguments, be)
          [] h = "handle_delete_message" -> handle_delete_message(arguments, be)
          [] h = "handle_search_spaces" -> handle_search_spaces(arguments, be)
          [] h = "handle_get_my_details" -> handle_get_my_details(arguments, be)
          [] OTHER -> Raised(Exc("ValueError", "Unknown tool: " \o name), <<>>)

ApiErrorPrefix == "Webex API Error: "
ErrorPrefix == "Error: "

\* error_msg built from the exception's class name instead of str(e)
ErrorMsg_ClassName(e) ==
    IF e.type = "ApiError" THEN ApiErrorPrefix \o e.type
    ELSE ErrorPrefix \o e.type

\* the two except clauses: error_msg for a caught exception
ErrorMsg(e) ==
    IF e.type = "ApiError" THEN ApiErrorPrefix \o e.msg
    ELSE ErrorPrefix \o e.msg

\* the guard dropped: initialise on every call
NeedsInit_Always(api) == TRUE

\* `if webex_api is None`
NeedsInit(api) == api = <<>>

\* call_tool(name, arguments) run with the global at `api`, the environment
\* `env`, n0 clients constructed so far and the backend `be`.  outcome is
\* "returned" (with result) or "raised" (with the exception that escapes);
\* api is the global afterwards.
call_tool(api, env, n0, name, arguments, be) ==
    LET needs == NeedsInit(api)
        init == initialize_webex_client(env, n0)
    IN  IF needs /\ init.exc # <<>>
        THEN \* raised before the assignment and outside the try block
             [outcome |-> "raised", exc |-> init.exc, result |-> <<>>,
              api |-> api, initialized |-> TRUE, built |-> FALSE,
              handler |-> "none", log |-> <<>>, caught |-> <<>>]
        ELSE
        LET api1 == IF needs THEN init.client ELSE api
            body == TryBody(name, arguments, be)
        IN  [outcome |-> "returned", exc |-> <<>>,
             result |-> IF body.exc = <<>> THEN body.result
                        ELSE ErrorResult(ErrorMsg(body.exc[1])),
             api |-> api1, initialized |-> needs, built |-> needs,
             handler |-> Route(name), log |-> body.log, caught |-> body.exc]

-----------------------------------------------------------------------------
(* Inputs explored *)

ErrSamples == { Exc("ApiError", "[404] Not Found"),
                Exc("ConnectionError", "Connection reset by peer") }

NoErr == Exc("none", "")

\* which backend call of an invocation fails (0: none), and how, for a
\* handler making at most n backend calls
Failures(n) ==
    {[fail |-> 0, err |-> NoErr]}
        \cup {[fail |-> k, err |-> e] : k \in 1..n, e \in ErrSamples}

Ann == [id |-> "p1", emails |-> <<"ann@example.com">>, displayName |-> "Ann Lee",
        firstName |-> "Ann", lastName |-> "Lee", created |-> "2024-01-01 10:00:00",
        orgId |-> "o1", type |-> "person"]
Bot == [id |-> "p2", emails |-> <<"bot@example.com">>, displayName |-> "Bot",
        created |-> "2024-02-02 10:00:00", orgId |-> "o1", type |-> "bot"]

PeopleSamples == { <<>>, <<Ann>>, <<Bot, Ann>> }

TitleSamples == { "Project Alpha", "CAFÉ", "PROJ notes" }
TermSamples == { "PROJ", "é", "" }

RoomAt(i, title) ==
    [id |-> "r" \o ToString(i), title |-> title, type |-> "group",
     created |-> "2024-03-03 10:00:00"]

\* the listings rooms.list may answer: up to MaxRooms rooms
RoomListings ==
    UNION { {[i \in 1..n |-> RoomAt(i, t[i])] : t \in [1..n -> TitleSamples]}
            : n \in 0..MaxRooms }

RoomSamples == { RoomAt(1, "Project Alpha"),
                 RoomAt(1, "Project Alpha")
                    @@ [lastActivity |-> "2024-04-04 10:00:00", creatorId |-> "p1"] }

MessageSample == [id |-> "m1", roomId |-> "r1", text |-> "hi",
                  personEmail |-> "ann@example.com",
                  created |-> "2024-05-05 10:00:00"]

MembershipSample == [id |-> "ms1", roomId |-> "r1",
                     personEmail |-> "ann@example.com",
                     personDisplayName |-> "Ann Lee", isModerator |-> FALSE,
                     created |-> "2024-06-06 10:00:00"]

\* the dicts over the optional str keys k1, k2: each absent, empty or set
OptionalPairs(k1, v1, k2, v2) ==
    LET d1 == {EmptyDict, k1 :> "", k1 :> v1}
        d2 == {EmptyDict, k2 :> "", k2 :> v2}
    IN  {a @@ b : a \in d1, b \in d2}

\* the dicts with the required str key k absent or set to v
RequiredKey(k, v) == {EmptyDict, k :> v}

Request(name, arguments, be) == [name |-> name, arguments |-> arguments, be |-> be]

SendMessageRequests ==
    { Request("send_message", r @@ t @@ o, f @@ [people |-> p, message |-> MessageSample]) :
        r \in RequiredKey("room_id", "r1"), t \in RequiredKey("text", "hi"),
        o \in OptionalPairs("markdown", "**hi**", "person_email", "ann@example.com"),
        f \in Failures(2), p \in PeopleSamples }

PersonDetailsRequests ==
    { Request("get_person_details", o, f @@ [people |-> p, person |-> Ann]) :
        o \in OptionalPairs("email", "ann@example.com", "person_id", "p1"),
        f \in Failures(1), p \in PeopleSamples }

SearchArgs ==
    {EmptyDict}
        \cup {"search_term" :> t : t \in TermSamples}
        \cup {("search_term" :> t) @@ ("max_results" :> m) :
                t \in TermSamples, m \in (0 - MaxResultsArg)..MaxResultsArg}

SearchRequests ==
    { Request("search_spaces", a, f @@ [rooms |-> l]) :
        a \in SearchArgs, f \in {[fail |-> 0, err |-> NoErr]}, l \in RoomListings }
    \cup
    { Request("search_spaces", "search_term" :> "proj", f @@ [rooms |-> <<>>]) :
        f \in Failures(1) }

OtherRequests ==
    { Request("list_spaces", a, f @@ [rooms |-> l]) :
        a \in {EmptyDict, "max_results" :> 1, "type" :> "group"},
        f \in Failures(1), l \in {<<>>} \cup {<<r>> : r \in RoomSamples} }
    \cup
    { Request("get_space_details", a, f @@ [room |-> r]) :
        a \in RequiredKey("room_id", "r1"), f \in Failures(1), r \in RoomSamples }
    \cup
    { Request("get_messages", a @@ m, f @@ [messages |-> l]) :
        a \in RequiredKey("room_id", "r1"), m \in {EmptyDict, "max_messages" :> 1},
        f \in Failures(1), l \in {<<>>, <<MessageSample>>} }
    \cup
    { Request("create_space", a @@ t, f @@ [room |-> RoomAt(1, "Project Alpha")]) :
        a \in RequiredKey("title", "Project Alpha"),
        t \in {EmptyDict, "team_id" :> "", "team_id" :> "t1"}, f \in Failures(1) }
    \cup
    { Request("add_person_to_space", a @@ p @@ m, f @@ [membership |-> MembershipSample]) :
        a \in RequiredKey("room_id", "r1"),
        p \in RequiredKey("person_email", "ann@example.com"),
        m \in {EmptyDict, "is_moderator" :> TRUE}, f \in Failures(1) }
    \cup
    { Request("list_space_members", a, f @@ [memberships |-> l]) :
        a \in RequiredKey("room_id", "r1"), f \in Failures(1),
        l \in {<<>>, <<MembershipSample>>} }
    \cup
    { Request("delete_message", a, f) :
        a \in RequiredKey("message_id", "m1"), f \in Failures(1) }
    \cup
    { Request("get_my_details", EmptyDict, f @@ [person |-> p]) :
        f \in Failures(1), p \in {Ann, Bot} }

UnknownNames == { "no_such_tool", "", "Send_Message", "handle_send_message" }

UnknownRequests ==
    { Request(n, EmptyDict, [fail |-> 0, err |-> NoErr]) : n \in UnknownNames }

Requests ==
    SendMessageRequests \cup PersonDetailsRequests \cup SearchRequests
        \cup OtherRequests \cup UnknownRequests

Environments ==
    { EmptyDict, TokenVar :> "", TokenVar :> "token-A" }

-----------------------------------------------------------------------------
(* The process *)

Init ==
    /\ environ \in Environments
    /\ webex_api = <<>>
    /\ pc = "idle"
    /\ last = <<>>
    /\ calls = 0
    /\ inits = 0
    /\ constructed = 0
    /\ listed = <<>>
    /\ after_failure = <<>>
    /\ selftest = <<>>
    /\ tasks = <<>>

\* a backend call of the invocation failed: the last call logged is the one
\* the backend was set to fail
BackendFailed(be, log) == log # <<>> /\ Fails(be, Len(log))

\* the transport adapter invokes call_tool(req.name, req.arguments), which
\* runs to completion against the backend req.be
CallTool(req) ==
    /\ pc = "idle"
    /\ calls < MaxCalls
    /\ LET r == call_tool(webex_api, environ, constructed,
                          req.name, req.arguments, req.be)
       IN  /\ webex_api' = r.api
           /\ inits' = inits + (IF r.initialized THEN 1 ELSE 0)
           /\ constructed' = constructed + (IF r.built THEN 1 ELSE 0)
           /\ last' = <<[req |-> req, api_before |-> webex_api, out |-> r]>>
           /\ after_failure' = IF BackendFailed(req.be, r.log) THEN <<r.api>>
                                ELSE after_failure
    /\ calls' = calls + 1
    /\ pc' = "done"
    /\ UNCHANGED <<environ, listed, selftest, tasks>>

\* the transport adapter takes the outcome (the result, or the exception
\* that escaped) and awaits the next request
Deliver ==
    /\ pc = "done"
    /\ pc' = "idle"
    /\ last' = <<>>
    /\ UNCHANGED <<environ, webex_api, calls, inits, constructed, listed,
                   after_failure, selftest, tasks>>

\* the transport adapter invokes list_tools()
ListTools ==
    /\ pc = "idle"
    /\ listed' = IF listed = <<>> THEN <<list_tools, list_tools>>
                 ELSE <<listed[1], list_tools>>
    /\ UNCHANGED <<environ, webex_api, pc, last, calls, inits, constructed,
                   after_failure, selftest, tasks>>

Next ==
    \/ \E req \in Requests : CallTool(req)
    \/ Deliver
    \/ ListTools

Spec == Init /\ [][Next]_vars

-----------------------------------------------------------------------------
(* The self-test script, src/test_connection.py.  Its inputs are the set   *)
(* of installed packages, the environment, and what the two live calls     *)
(* answer.                                                                 *)

\* test_imports(): both packages import
test_imports(pkgs) ==
    IF "mcp" \notin pkgs THEN FALSE
    ELSE IF "webexteamssdk" \notin pkgs THEN FALSE
    ELSE TRUE

\* test_token(): the token is set and not empty
test_token(env) == ~TokenMissing(getenv(env, TokenVar))

\* test_connection(): people.me() answers and me.emails[0] exists; any
\* exception is caught and gives False
test_connection(env, be) ==
    IF be.me_fails THEN FALSE
    ELSE IF be.me.emails = <<>> THEN FALSE  \* IndexError at me.emails[0]
    ELSE TRUE

\* test_spaces(): rooms.list(max=5) answers; any exception gives False
test_spaces(env, be) ==
    IF be.rooms_fail THEN FALSE ELSE TRUE

\* any(...) where all(...) was meant
AllPassed_Any(results) == \E i \in 1..Len(results) : results[i][2]

\* all(result[1] for result in results)
AllPassed(results) == \A i \in 1..Len(results) : results[i][2]

\* main(): the results list, the exit code, and the number of clients
\* built on the way: test_connection() and test_spaces() each construct a
\* WebexTeamsAPI of their own before their live call
main(pkgs, env, be) ==
    LET r1 == << <<"Package Installation", test_imports(pkgs)>> >>
        r2 == IF r1[1][2]
              THEN Append(r1, <<"Token Configuration", test_token(env)>>)
              ELSE r1
        live == r1[1][2] /\ r2[Len(r2)][2]
        r4 == IF live
              THEN r2 \o << <<"API Connection", test_connection(env, be)>>,
                            <<"Space Listing", test_spaces(env, be)>> >>
              ELSE r2
    IN  [results |-> r4,
         exit |-> IF AllPassed(r4) THEN 0 ELSE 1,
         built |-> IF live THEN 1 + 1 ELSE 0]

PackageSets == SUBSET {"mcp", "webexteamssdk"}

NoEmails == [Bot EXCEPT !.emails = <<>>]

\* what people.me() and rooms.list(max=5) do during the self-test
SelfTestBackends ==
    { [me_fails |-> mf, me |-> m, rooms_fail |-> rf, rooms |-> l] :
        mf \in BOOLEAN, m \in {Ann, NoEmails}, rf \in BOOLEAN,
        l \in {[i \in 1..n |-> RoomAt(i, "Project Alpha")] : n \in 0..MaxRooms} }

SelfTestInit ==
    /\ environ \in Environments
    /\ selftest \in { <<[pc |-> "ready", pkgs |-> p, be |-> b,
                         results |-> <<>>, exit |-> <<>>]>> :
                        p \in PackageSets, b \in SelfTestBackends }
    /\ webex_api = <<>>
    /\ pc = "idle"
    /\ last = <<>>
    /\ calls = 0
    /\ inits = 0
    /\ constructed = 0
    /\ listed = <<>>
    /\ after_failure = <<>>
    /\ tasks = <<>>

\* sys.exit(main())
RunSelfTest ==
    /\ selftest[1].pc = "ready"
    /\ LET r == main(selftest[1].pkgs, environ, selftest[1].be)
       IN  /\ selftest' = <<[selftest[1] EXCEPT !.pc = "exited",
                                             !.results = r.results,
                                             !.exit = <<r.exit>>]>>
           /\ constructed' = constructed + r.built
    /\ UNCHANGED <<environ, webex_api, pc, last, calls, inits, listed,
                   after_failure, tasks>>

SelfTestNext == RunSelfTest

SelfTestSpec == SelfTestInit /\ [][SelfTestNext]_vars

-----------------------------------------------------------------------------
(* Pipelined dispatch.  The transport adapter may create the call_tool     *)
(* coroutine of a request before earlier ones have finished.  Coroutines   *)
(* of one event loop switch only at an await: call_tool has none between   *)
(* the test of webex_api and its assignment, and one, the await of the     *)
(* handler, in the try block.  A task is a coroutine: its request, the     *)
(* global as it was when the coroutine was created, its position, and the  *)
(* client its handler worked with.                                         *)

\* requests in flight at once, at most
MaxTasks == 3

PipelinedRequests ==
    { Request("get_my_details", EmptyDict, f @@ [person |-> Bot]) : f \in Failures(1) }
        \cup { Request("no_such_tool", EmptyDict, [fail |-> 0, err |-> NoErr]) }

\* the global read into a local when the coroutine was created
ObservedHandle_Stale(task, api) == task.seen

\* the value `webex_api is None` tests: the global, read at the test
ObservedHandle(task, api) == api

PipelinedInit ==
    /\ environ \in Environments
    /\ webex_api = <<>>
    /\ tasks = <<>>
    /\ inits = 0
    /\ constructed = 0
    /\ pc = "idle"
    /\ last = <<>>
    /\ calls = 0
    /\ listed = <<>>
    /\ after_failure = <<>>
    /\ selftest = <<>>

\* the transport adapter creates the coroutine call_tool(req.name, req.arguments)
Submit(req) ==
    /\ Len(tasks) < MaxTasks
    /\ tasks' = Append(tasks, [req |-> req, seen |-> webex_api, pc |-> "created",
                               used |-> <<>>, failed |-> FALSE])
    /\ UNCHANGED <<environ, webex_api, inits, constructed, pc, last, calls,
                   listed, after_failure, selftest>>

\* call_tool up to the try block: `if webex_api is None: webex_api = ...`
Enter(i) ==
    /\ tasks[i].pc = "created"
    /\ IF NeedsInit(ObservedHandle(tasks[i], webex_api))
       THEN LET init == initialize_webex_client(environ, constructed)
            IN  /\ inits' = inits + 1
                /\ IF init.exc # <<>>
                   THEN /\ tasks' = [tasks EXCEPT ![i].pc = "raised"]
                        /\ UNCHANGED <<webex_api, constructed>>
                   ELSE /\ tasks' = [tasks EXCEPT ![i].pc = "entered"]
                        /\ webex_api' = init.client
                        /\ constructed' = constructed + 1
       ELSE /\ tasks' = [tasks EXCEPT ![i].pc = "entered"]
            /\ UNCHANGED <<webex_api, inits, constructed>>
    /\ UNCHANGED <<environ, pc, last, calls, listed, after_failure, selftest>>

\* the try block: the handler runs on the global client and its outcome is
\* turned into the result
Handle(i) ==
    /\ tasks[i].pc = "entered"
    /\ LET body == TryBody(tasks[i].req.name, tasks[i].req.arguments, tasks[i].req.be)
       IN  tasks' = [tasks EXCEPT ![i].pc = "returned",
                                  ![i].used = webex_api,
                                  ![i].failed = (body.exc # <<>>)]
    /\ UNCHANGED <<environ, webex_api, inits, constructed, pc, last, calls,
                   listed, after_failure, selftest>>

PipelinedNext ==
    \/ \E req \in PipelinedRequests : Submit(req)
    \/ \E i \in 1..Len(tasks) : Enter(i)
    \/ \E i \in 1..Len(tasks) : Handle(i)

PipelinedSpec == PipelinedInit /\ [][PipelinedNext]_vars

-----------------------------------------------------------------------------
(* Vocabulary of the properties *)

Done == pc = "done"
Req == last[1].req
Out == last[1].out
ApiBefore == last[1].api_before

HandleAbsent(api) == api = <<>>
TokenUsable == TokenVar \in DOMAIN environ /\ environ[TokenVar] # ""

\* the string s opens with p
StartsWith(s, p) == Len(s) >= Len(p) /\ SubSeq(s, 1, Len(p)) = p

\* the result is one text block
OneTextBlock(result) == Len(result) = 1 /\ result[1].type = "text"

\* a Failure result: one text block whose text opens with a failure prefix
IsFailure(result) ==
    /\ OneTextBlock(result)
    /\ \/ StartsWith(result[1].text, "Error: ")
       \/ StartsWith(result[1].text, "Webex API Error: ")

\* call_tool returned a Failure result (nothing escaped)
ReturnedFailure == Out.outcome = "returned" /\ IsFailure(Out.result)

\* the argument is given and not empty
Supplied(args, k) == k \in DOMAIN args /\ args[k] # ""

CatalogNames == {list_tools[i].name : i \in 1..Len(list_tools)}

\* the backend calls of the invocation with operation op, by position
CallsOf(op) == {i \in 1..Len(Out.log) : Out.log[i].op = op}

-----------------------------------------------------------------------------
(* C1 *)

\* C1: when call_tool runs with the client handle absent and
\* WEBEX_ACCESS_TOKEN missing or empty, the configuration error comes back
\* as a text Failure result carrying the error message, and nothing escapes
\* call_tool as a raised exception, whatever the tool name and arguments.
C1_ConfigErrorIsFailure ==
    (Done /\ HandleAbsent(ApiBefore) /\ ~TokenUsable) =>
        /\ Out.outcome = "returned"
        /\ IsFailure(Out.result)
        /\ Contains(Out.result[1].text, "WEBEX_ACCESS_TOKEN environment variable is required")

-----------------------------------------------------------------------------
(* C2 *)

\* C2: call_tool with a name that is not a catalog name yields a Failure
\* result and never an escaping exception, whether the handle is absent or
\* present and whether the token is set or not.
C2_UnknownToolIsFailure ==
    (Done /\ Req.name \notin CatalogNames) => ReturnedFailure

-----------------------------------------------------------------------------
(* C3 *)

\* C3: when a backend call made by a handler fails, call_tool returns a
\* Failure result whose text contains the backend's message verbatim, the
\* handle is present and is the instance it was before the call, and after
\* such a failure the handle is never reset and every later invocation is
\* dispatched and answered with a result.
C3_BackendFailureSurvived ==
    /\ (Done /\ BackendFailed(Req.be, Out.log)) =>
          /\ ReturnedFailure
          /\ Contains(Out.result[1].text, Req.be.err.msg)
          /\ ~HandleAbsent(webex_api)
          /\ (~HandleAbsent(ApiBefore) => webex_api = ApiBefore)
    /\ (after_failure # <<>>) =>
          /\ ~HandleAbsent(webex_api)
          /\ webex_api = after_failure[1]
          /\ Done => /\ Out.outcome = "returned"
                     /\ OneTextBlock(Out.result)
                     /\ ~HandleAbsent(ApiBefore) => ApiBefore = after_failure[1]

\* a later invocation, made after a backend failure, was routed to a handler
\* and answered with a success
C3_Witness ==
    /\ Done
    /\ after_failure # <<>>
    /\ ~BackendFailed(Req.be, Out.log)
    /\ Out.handler # "unknown"
    /\ Out.outcome = "returned"
    /\ ~IsFailure(Out.result)

-----------------------------------------------------------------------------
(* C4 *)

\* C4: with a valid token, the backend client is constructed exactly once,
\* on the first invocation, and every later invocation uses that instance.
C4_ConstructedOnce ==
    (TokenUsable /\ calls >= 1) =>
        /\ constructed = 1
        /\ ~HandleAbsent(webex_api)
        /\ webex_api[1].instance = 1
        /\ (Done /\ calls = 1) => Out.built
        /\ (Done /\ calls >= 2) => (~Out.built /\ ApiBefore = webex_api)

\* a second or later invocation has just ended with a valid token
C4_Witness == Done /\ TokenUsable /\ calls >= 2 /\ Out.outcome = "returned"

-----------------------------------------------------------------------------
(* C5 *)

\* C5 as stated: over any sequence of invocations initialize_webex_client
\* (and with it the read of the token) runs at most once.
C5_InitAtMostOnce == inits <= 1

\* C5 as amended: initialisation runs on exactly the invocations that find
\* the handle absent.  With a usable token that is the first invocation
\* only: it runs once, and never again.  With the token missing or empty it
\* fails, leaves the handle absent and runs again on every invocation.
C5_InitWhileAbsent ==
    /\ Done => (Out.initialized <=> HandleAbsent(ApiBefore))
    /\ TokenUsable => inits = Min(calls, 1)
    /\ ~TokenUsable => (inits = calls /\ HandleAbsent(webex_api))
    /\ constructed <= 1

\* initialisation has run a second time, on a token that is missing
C5_Witness == Done /\ ~TokenUsable /\ inits >= 2 /\ Out.initialized

-----------------------------------------------------------------------------
(* C6 *)

\* C6: get_person_details with neither email nor person_id supplied (each
\* absent or empty) makes no backend call and yields a Failure carrying the
\* argument error; with email supplied it makes exactly one people.list
\* call; with only person_id supplied exactly one people.get call.
C6_PersonLookup ==
    (Done /\ Out.handler = "handle_get_person_details") =>
        LET a == Req.arguments
        IN  /\ (~Supplied(a, "email") /\ ~Supplied(a, "person_id")) =>
                  /\ Out.log = <<>>
                  /\ ReturnedFailure
                  /\ Contains(Out.result[1].text,
                              "Either email or person_id must be provided")
            /\ Supplied(a, "email") =>
                  /\ Len(Out.log) = 1
                  /\ Out.log[1].op = "people.list"
                  /\ Out.log[1].params.email = a["email"]
            /\ (~Supplied(a, "email") /\ Supplied(a, "person_id")) =>
                  /\ Len(Out.log) = 1
                  /\ Out.log[1].op = "people.get"
                  /\ Out.log[1].params.personId = a["person_id"]

\* get_person_details ran with an empty email and no person_id
C6_Witness ==
    /\ Done
    /\ Out.handler = "handle_get_person_details"
    /\ "email" \in DOMAIN Req.arguments
    /\ ~Supplied(Req.arguments, "email")
    /\ ~Supplied(Req.arguments, "person_id")
    /\ Out.log = <<>>

-----------------------------------------------------------------------------
(* C7 *)

\* C7: send_message with only room_id and text makes no person lookup and
\* creates a message whose payload has the text and no toPersonId; with
\* person_email supplied as well, exactly one people.list call is made, it
\* comes before messages.create, and the created message's payload carries
\* the first matched person's id as toPersonId, and the roomId.
C7_SendMessage ==
    (Done /\ Out.handler = "handle_send_message") =>
        LET a == Req.arguments
        IN  /\ (DOMAIN a = {"room_id", "text"}) =>
                  /\ CallsOf("people.list") = {}
                  /\ Len(Out.log) = 1
                  /\ Out.log[1].op = "messages.create"
                  /\ "text" \in DOMAIN Out.log[1].params
                  /\ Out.log[1].params.text = a["text"]
                  /\ "toPersonId" \notin DOMAIN Out.log[1].params
            /\ ({"room_id", "text"} \subseteq DOMAIN a /\ Supplied(a, "person_email")) =>
                  /\ CallsOf("people.list") = {1}
                  /\ Out.log[1].params.email = a["person_email"]
                  /\ \A i \in CallsOf("messages.create") :
                        /\ i = 2
                        /\ Req.be.people # <<>>
                        /\ Out.log[i].params.toPersonId = Req.be.people[1].id
                        /\ Out.log[i].params.roomId = a["room_id"]
                        /\ Out.log[i].params.text = a["text"]

\* a directed message was created after a lookup that matched two people
C7_Witness ==
    /\ Done
    /\ Out.handler = "handle_send_message"
    /\ Supplied(Req.arguments, "person_email")
    /\ Len(Req.be.people) = 2
    /\ CallsOf("messages.create") = {2}
    /\ ~IsFailure(Out.result)

-----------------------------------------------------------------------------
(* C8 *)

\* the one-character strings c and d are the same letter, case apart
SameLetter(c, d) ==
    \/ c = d
    \/ \E i \in 1..56 :
          {c, d} = {SubSeq("ABCDEFGHIJKLMNOPQRSTUVWXYZÀÁÂÃÄÅÆÇÈÉÊËÌÍÎÏÐÑÒÓÔÕÖØÙÚÛÜÝÞ", i, i),
                    SubSeq("abcdefghijklmnopqrstuvwxyzàáâãäåæçèéêëìíîïðñòóôõöøùúûüýþ", i, i)}

\* term occurs in title as a substring, case apart
OccursIn(term, title) ==
    \E i \in 1..(Len(title) - Len(term) + 1) :
        \A j \in 1..Len(term) :
            SameLetter(SubSeq(title, i + j - 1, i + j - 1), SubSeq(term, j, j))

\* the positions in the listing of the rooms whose title matches
MatchPositions(rooms, term) ==
    {i \in 1..Len(rooms) : OccursIn(term, rooms[i].title)}

\* the position of the k-th match
KthMatch(rooms, term, k) ==
    CHOOSE i \in MatchPositions(rooms, term) :
        Cardinality({j \in MatchPositions(rooms, term) : j <= i}) = k

SearchSucceeded ==
    /\ Done
    /\ Out.handler = "handle_search_spaces"
    /\ Out.outcome = "returned"
    /\ ~IsFailure(Out.result)

SearchMax ==
    IF "max_results" \in DOMAIN Req.arguments THEN Req.arguments["max_results"] ELSE 20

\* the spaces returned are the first n matches, in listing order
ReturnsFirstMatches(n) ==
    LET found == Out.result[1].json[1]
        rooms == Req.be.rooms
        term == Req.arguments["search_term"]
    IN  /\ Len(found.spaces) = n
        /\ found.matches_found = Len(found.spaces)
        /\ \A k \in 1..n :
              /\ found.spaces[k].id = rooms[KthMatch(rooms, term, k)].id
              /\ found.spaces[k].title = rooms[KthMatch(rooms, term, k)].title

MatchCount ==
    Cardinality(MatchPositions(Req.be.rooms, Req.arguments["search_term"]))

\* C8 as stated: for every integer max_results, search_spaces returns the
\* case-insensitive matches in listing order truncated to the first
\* max_results, never more than max_results entries, and matches_found is
\* the number returned.
C8_SearchEveryInteger ==
    SearchSucceeded =>
        /\ ReturnsFirstMatches(Min(Max(SearchMax, 0), MatchCount))
        /\ Len(Out.result[1].json[1].spaces) <= SearchMax

\* C8 as amended: that holds for every max_results >= 0; for a negative
\* max_results the matches are returned in listing order with the last
\* |max_results| of them dropped.
C8_SearchNonNegative ==
    SearchSucceeded =>
        /\ SearchMax >= 0 =>
              /\ ReturnsFirstMatches(Min(SearchMax, MatchCount))
              /\ Len(Out.result[1].json[1].spaces) <= SearchMax
        /\ SearchMax < 0 =>
              ReturnsFirstMatches(Max(MatchCount + SearchMax, 0))

\* two matches, the first differing from the term in case, cut to one
C8_Witness ==
    /\ SearchSucceeded
    /\ Req.arguments["search_term"] = "PROJ"
    /\ SearchMax = 1
    /\ MatchCount = 2
    /\ Req.be.rooms[1].title = "Project Alpha"
    /\ Len(Out.result[1].json[1].spaces) = 1

-----------------------------------------------------------------------------
(* C9 *)

NamesDistinct(tools) ==
    \A i, j \in 1..Len(tools) : tools[i].name = tools[j].name => i = j

\* C9 as stated: list_tools answers the same list every time, of exactly
\* ten descriptors with pairwise distinct names.
C9_TenTools ==
    listed # <<>> =>
        /\ listed[2] = listed[1]
        /\ Len(listed[2]) = 10
        /\ NamesDistinct(listed[2])

\* C9 as amended: the same list every time, of exactly eleven descriptors
\* with pairwise distinct names.
C9_ElevenTools ==
    listed # <<>> =>
        /\ listed[2] = listed[1]
        /\ Len(listed[2]) = 11
        /\ NamesDistinct(listed[2])

\* list_tools has answered with the client handle present
C9_Witness == listed # <<>> /\ ~HandleAbsent(webex_api) /\ calls >= 1

-----------------------------------------------------------------------------
(* C10 *)

\* C10: every name list_tools advertises is routed by call_tool to a
\* handler, one per name, and every name call_tool routes to a handler is
\* the name of exactly one descriptor.
C10_CatalogMatchesHandlers ==
    /\ \A i \in 1..Len(list_tools) : Route(list_tools[i].name) # "unknown"
    /\ \A i, j \in 1..Len(list_tools) :
          Route(list_tools[i].name) = Route(list_tools[j].name) => i = j
    /\ \A b \in 1..Len(Branches) :
          Cardinality({i \in 1..Len(list_tools) :
                          list_tools[i].name = Branches[b][1]}) = 1
    /\ (Done /\ Out.outcome = "returned") =>
          /\ Out.handler # "unknown" <=> Req.name \in CatalogNames
          /\ Out.handler # "unknown" =>
                Cardinality({i \in 1..Len(list_tools) :
                                list_tools[i].name = Req.name}) = 1
          /\ Out.handler = "unknown" =>
                Out.result = ErrorResult("Error: Unknown tool: " \o Req.name)

\* the last catalog name was invoked and reached its handler
C10_Witness ==
    /\ Done
    /\ Req.name = list_tools[Len(list_tools)].name
    /\ Out.handler = "handle_get_my_details"
    /\ ~IsFailure(Out.result)

-----------------------------------------------------------------------------
(* C11 *)

\* C11: every result call_tool returns is a sequence of exactly one text
\* block; when an exception was caught its text is a failure prefix
\* ("Webex API Error: " for an ApiError, "Error: " otherwise) followed by
\* the exception's message verbatim; when the handler returned, the text
\* begins with neither failure prefix.
C11_OneBlockPrefixed ==
    (Done /\ Out.outcome = "returned") =>
        /\ Len(Out.result) = 1
        /\ Out.result[1].type = "text"
        /\ Out.caught # <<>> =>
              \/ /\ Out.caught[1].type = "ApiError"
                 /\ Out.result[1].text = "Webex API Error: " \o Out.caught[1].msg
              \/ /\ Out.caught[1].type # "ApiError"
                 /\ Out.result[1].text = "Error: " \o Out.caught[1].msg
        /\ Out.caught = <<>> =>
              /\ Out.handler \notin {"unknown", "none"}
              /\ Out.result[1].json # <<>>
              /\ ~StartsWith(Out.result[1].text, "Error: ")
              /\ ~StartsWith(Out.result[1].text, "Webex API Error: ")

\* a failure that did not come from the backend: a required argument was
\* missing, and the KeyError came back as one prefixed text block
C11_Witness ==
    /\ Done
    /\ Out.outcome = "returned"
    /\ Out.caught # <<>>
    /\ Out.caught[1].type = "KeyError"
    /\ Out.log = <<>>
    /\ Out.result[1].text = "Error: 'room_id'"

-----------------------------------------------------------------------------
(* C12 *)

StageNames == << "Package Installation", "Token Configuration",
                 "API Connection", "Space Listing" >>

\* C12: main returns 0 exactly when all four stages ran and each passed,
\* and 1 when a stage that ran failed; the token stage runs only after the
\* package stage passed, the identity and space-listing stages only after
\* the token stage passed, and the space-listing stage runs even when the
\* identity stage failed.
C12_ExitCode ==
    (selftest # <<>> /\ selftest[1].pc = "exited") =>
        LET r == selftest[1].results
            n == Len(r)
            code == selftest[1].exit[1]
            ran(k) == n >= k
            passed(k) == n >= k /\ r[k][2]
        IN  /\ \A k \in 1..n : r[k][1] = StageNames[k]
            /\ n <= 4
            /\ code \in {0, 1}
            /\ code = 0 <=> (n = 4 /\ \A k \in 1..4 : r[k][2])
            /\ code = 1 <=> (\E k \in 1..n : ~r[k][2])
            /\ ran(1)
            /\ ran(2) <=> passed(1)
            /\ ran(3) <=> passed(2)
            /\ ran(4) <=> passed(2)
            /\ passed(1) <=> {"mcp", "webexteamssdk"} \subseteq selftest[1].pkgs
            /\ passed(2) <=> (passed(1) /\ TokenUsable)
            /\ passed(3) <=> /\ passed(2)
                             /\ ~selftest[1].be.me_fails
                             /\ selftest[1].be.me.emails # <<>>
            /\ passed(4) <=> (passed(2) /\ ~selftest[1].be.rooms_fail)

\* the identity stage failed, the space listing still ran and passed, and
\* the exit code is 1
C12_Witness ==
    /\ selftest # <<>>
    /\ selftest[1].pc = "exited"
    /\ Len(selftest[1].results) = 4
    /\ ~selftest[1].results[3][2]
    /\ selftest[1].results[4][2]
    /\ selftest[1].exit = <<1>>

-----------------------------------------------------------------------------
(* C13 *)

\* C13: however pipelined call_tool invocations interleave, at most one
\* client is ever constructed, the handle once present stays that first
\* instance (never reassigned, never reset to absent), and every invocation
\* whose handler ran worked with that same instance.
C13_SingleHandle ==
    /\ constructed <= 1
    /\ constructed = 0 <=> webex_api = <<>>
    /\ webex_api # <<>> => webex_api[1].instance = 1
    /\ \A i \in 1..Len(tasks) :
          /\ tasks[i].pc \in {"entered", "returned"} => webex_api # <<>>
          /\ tasks[i].pc = "returned" => tasks[i].used = webex_api
          /\ tasks[i].pc = "raised" => webex_api = <<>>

\* two coroutines created while the handle was absent are both inside the
\* try block, and a third has already been answered
C13_Witness ==
    /\ Len(tasks) = 3
    /\ tasks[1].seen = <<>> /\ tasks[1].pc = "entered"
    /\ tasks[2].seen = <<>> /\ tasks[2].pc = "entered"
    /\ tasks[3].pc = "returned"

====
